---- MODULE Spec2Model ----
(***************************************************************************)
(* Model of the EllipticCurve program (elliptic_curve.py and               *)
(* elliptic_curve1.1.py): the curve model (a, b), the text-box update      *)
(* handler, the discriminant / j-invariant computations, the real-locus    *)
(* sampler and the j-invariant field over the upper half-plane grid.       *)
(*                                                                         *)
(* Numbers are binary floating point values (-1)^s * m * 2^e with a        *)
(* MantBits-bit significand, rounded to nearest-even after every           *)
(* operation, with signed zeros, infinities and NaN as in IEEE 754 and the  *)
(* exponent range of float64: a result of 2^1024 or more is an infinity,   *)
(* one below 2^-1074 a zero.                                               *)
(***************************************************************************)
EXTENDS Integers, Sequences, FiniteSets, TLC

\* Significand width of the modelled float (Python/numpy float64 has 53).
MantBits == 14

MantLo == 2^(MantBits - 1)
MantHi == 2^MantBits

\* Exponent range of float64: finite values are below 2^MaxExp in magnitude
\* and the smallest positive value is 2^MinExp.
MaxExp == 1024
MinExp == -1074

Fin(s, m, e) == [k |-> "fin", s |-> s, m |-> m, e |-> e]
Zero(s) == Fin(s, 0, 0)
Inf(s) == [k |-> "inf", s |-> s, m |-> 0, e |-> 0]
NaN == [k |-> "nan", s |-> 0, m |-> 0, e |-> 0]

IsNaN(x) == x.k = "nan"
IsInf(x) == x.k = "inf"
IsFinite(x) == x.k = "fin"
IsZero(x) == x.k = "fin" /\ x.m = 0

\* The result of an expression that raised OverflowError instead of
\* returning a value.
OverflowError == [k |-> "OverflowError", s |-> 0, m |-> 0, e |-> 0]
Raised(x) == x.k = "OverflowError"

Xor(s, t) == (s + t) % 2

\* The element of a singleton set.  TLC may evaluate an operator's argument
\* anew at each of its uses; The({e(x) : x \in {arg}}) evaluates arg once.
The(S) == CHOOSE v \in S : TRUE

\* Number of bits of a positive integer below 2^30.
BitLen(q) == CHOOSE n \in 1..30 : q < 2^n /\ 2 * q >= 2^n

\* The normalised m * 2^e with the overflow to an infinity and the underflow
\* to a zero of float64 (subnormal values keep their full significand).
InRange(s, m, e) ==
    IF e + MantBits > MaxExp THEN Inf(s)
    ELSE IF e + MantBits <= MinExp THEN Zero(s)
    ELSE Fin(s, m, e)

\* The float nearest to (q + f) * 2^e, where 0 <= f < 1 and sticky says f > 0
\* (round half to even).  A sticky q always has more than MantBits bits.
RoundQ(s, qq, sticky, e) ==
    The({ IF q = 0 THEN Zero(s)
          ELSE IF n <= MantBits
          THEN InRange(s, q * 2^(MantBits - n), e - (MantBits - n))
          ELSE LET sh == n - MantBits
                   hi == q \div 2^sh
                   lo == q % 2^sh
                   half == 2^(sh - 1)
                   up == lo > half \/ (lo = half /\ (sticky \/ hi % 2 = 1))
                   m == IF up THEN hi + 1 ELSE hi
               IN IF m = MantHi THEN InRange(s, MantLo, e + sh + 1)
                                ELSE InRange(s, m, e + sh)
          : q \in {qq}, n \in {IF qq = 0 THEN 0 ELSE BitLen(qq)} })



FromInt(n) == IF n < 0 THEN RoundQ(1, -n, FALSE, 0) ELSE RoundQ(0, n, FALSE, 0)

FNeg(xx) ==
    The({ IF IsNaN(x) THEN x ELSE [x EXCEPT !.s = 1 - x.s] : x \in {xx} })
FAbs(xx) ==
    The({ IF IsNaN(x) THEN x ELSE [x EXCEPT !.s = 0] : x \in {xx} })


\* Order of the magnitudes of two finite floats: -1, 0 or 1.
MagCmp(x, y) ==
    IF x.m = 0 \/ y.m = 0
    THEN (IF x.m = y.m THEN 0 ELSE IF x.m = 0 THEN -1 ELSE 1)
    ELSE IF x.e # y.e THEN (IF x.e < y.e THEN -1 ELSE 1)
    ELSE IF x.m = y.m THEN 0 ELSE IF x.m < y.m THEN -1 ELSE 1

\* Order of two floats that are not NaN: -1, 0 or 1 (-0 and +0 are equal).
FCmp(xx, yy) ==
    The({ IF IsInf(x) \/ IsInf(y)
          THEN LET vx == IF IsInf(x) THEN 1 - 2 * x.s ELSE 0
                   vy == IF IsInf(y) THEN 1 - 2 * y.s ELSE 0
               IN IF vx = vy THEN 0 ELSE IF vx < vy THEN -1 ELSE 1
          ELSE IF x.m = 0 /\ y.m = 0 THEN 0
          ELSE IF x.m = 0 THEN (IF y.s = 1 THEN 1 ELSE -1)
          ELSE IF y.m = 0 THEN (IF x.s = 1 THEN -1 ELSE 1)
          ELSE IF x.s # y.s THEN (IF x.s = 1 THEN -1 ELSE 1)
          ELSE IF x.s = 0 THEN MagCmp(x, y) ELSE MagCmp(y, x)
          : x \in {xx}, y \in {yy} })


FEq(xx, yy) ==
    \E x \in {xx}, y \in {yy} : ~IsNaN(x) /\ ~IsNaN(y) /\ FCmp(x, y) = 0
FNe(x, y) == ~FEq(x, y)
FLt(xx, yy) ==
    \E x \in {xx}, y \in {yy} : ~IsNaN(x) /\ ~IsNaN(y) /\ FCmp(x, y) < 0
FLe(xx, yy) ==
    \E x \in {xx}, y \in {yy} : ~IsNaN(x) /\ ~IsNaN(y) /\ FCmp(x, y) <= 0
FGe(x, y) == FLe(y, x)

FAdd(xx, yy) ==
    The({ IF IsNaN(x) \/ IsNaN(y) THEN NaN
          ELSE IF IsInf(x) THEN (IF IsInf(y) /\ y.s # x.s THEN NaN ELSE x)
          ELSE IF IsInf(y) THEN y
          ELSE IF x.m = 0 /\ y.m = 0
          THEN Zero(IF x.s = 1 /\ y.s = 1 THEN 1 ELSE 0)
          ELSE IF x.m = 0 THEN y
          ELSE IF y.m = 0 THEN x
          ELSE IF x.e - y.e >= MantBits + 2 THEN x
          ELSE IF y.e - x.e >= MantBits + 2 THEN y
          ELSE LET lo == IF x.e < y.e THEN x.e ELSE y.e
                   sx == (1 - 2 * x.s) * x.m * 2^(x.e - lo)
                   sy == (1 - 2 * y.s) * y.m * 2^(y.e - lo)
                   sum == sx + sy
               IN IF sum = 0 THEN Zero(0)
                  ELSE IF sum < 0 THEN RoundQ(1, -sum, FALSE, lo)
                  ELSE RoundQ(0, sum, FALSE, lo)
          : x \in {xx}, y \in {yy} })


FSub(x, y) == FAdd(x, FNeg(y))

FMul(xx, yy) ==
    The({ IF IsNaN(x) \/ IsNaN(y) THEN NaN
          ELSE IF IsInf(x) \/ IsInf(y)
          THEN (IF IsZero(x) \/ IsZero(y) THEN NaN ELSE Inf(Xor(x.s, y.s)))
          ELSE RoundQ(Xor(x.s, y.s), x.m * y.m, FALSE, x.e + y.e)
          : x \in {xx}, y \in {yy} })


\* IEEE division as numpy performs it: x/0 is an infinity, 0/0 is NaN.
FDiv(xx, yy) ==
    The({ IF IsNaN(x) \/ IsNaN(y) THEN NaN
          ELSE IF IsInf(x) THEN (IF IsInf(y) THEN NaN ELSE Inf(Xor(x.s, y.s)))
          ELSE IF IsInf(y) THEN Zero(Xor(x.s, y.s))
          ELSE IF y.m = 0 THEN (IF x.m = 0 THEN NaN ELSE Inf(Xor(x.s, y.s)))
          ELSE LET n == x.m * 2^(MantBits + 1)
               IN RoundQ(Xor(x.s, y.s), n \div y.m, n % y.m # 0,
                         x.e - y.e - (MantBits + 1))
          : x \in {xx}, y \in {yy} })


\* x ** n of numpy for a small positive integer n, by repeated
\* multiplication; an overflow is an infinity.
RECURSIVE FPow(_, _)
FPow(x, n) == IF n = 1 THEN x ELSE FMul(FPow(x, n - 1), x)

\* x ** n of a Python float: an overflow raises OverflowError.
PyPow(xx, n) ==
    The({ IF IsInf(r) /\ IsFinite(xx) THEN OverflowError ELSE r
          : r \in {FPow(xx, n)} })

\* Integer square root of q by bisection: the r in lo..hi with r*r <= q < (r+1)^2.
RECURSIVE ISqrt(_, _, _)
ISqrt(q, lo, hi) ==
    IF lo = hi THEN lo
    ELSE LET mid == (lo + hi + 1) \div 2
         IN IF mid * mid <= q THEN ISqrt(q, mid, hi) ELSE ISqrt(q, lo, mid - 1)

\* np.sqrt: correctly rounded; NaN for a negative argument.
FSqrt(xx) ==
    The({ IF IsNaN(x) THEN NaN
          ELSE IF IsZero(x) THEN x
          ELSE IF x.s = 1 THEN NaN
          ELSE IF IsInf(x) THEN x
          ELSE LET sh == IF (x.e - (MantBits + 1)) % 2 = 0 THEN MantBits + 1
                                                             ELSE MantBits + 2
                   q == x.m * 2^sh
                   r == ISqrt(q, 0, 2^(MantBits + 1))
               IN RoundQ(0, r, r * r # q, (x.e - sh) \div 2)
          : x \in {xx} })


(***************************************************************************)
(* Text of the two text boxes: a sequence of one-character strings.        *)
(***************************************************************************)
DigitChars == <<"0", "1", "2", "3", "4", "5", "6", "7", "8", "9">>
IsDigit(c) == \E d \in 1..10 : DigitChars[d] = c
DigitVal(c) == (CHOOSE d \in 1..10 : DigitChars[d] = c) - 1

\* The decimal value of a sequence of digit characters.
RECURSIVE DecVal(_)
DecVal(ds) ==
    IF ds = <<>> THEN 0
    ELSE 10 * DecVal(SubSeq(ds, 1, Len(ds) - 1)) + DigitVal(ds[Len(ds)])

\* str(n) of a Python int.
RECURSIVE StrNat(_)
StrNat(n) == IF n < 10 THEN <<DigitChars[n + 1]>>
             ELSE Append(StrNat(n \div 10), DigitChars[(n % 10) + 1])
StrInt(n) == IF n < 0 THEN <<"-">> \o StrNat(-n) ELSE StrNat(n)

\* 10 ** n, by which float(text) scales for a decimal exponent n >= 0,
\* computed by repeated squaring and rounded at each step.
RECURSIVE Pow10(_)
Pow10(n) ==
    IF n = 0 THEN FromInt(1)
    ELSE IF n % 2 = 1 THEN FMul(Pow10(n - 1), FromInt(10))
    ELSE The({ FMul(h, h) : h \in {Pow10(n \div 2)} })

\* The value of  digits [. digits]  or  . digits;  [ok |-> FALSE] if the
\* text is not of that form.
ParseDecimal(body) ==
    LET dots == {i \in 1..Len(body) : body[i] = "."}
        digits == SelectSeq(body, IsDigit)
        wellFormed == /\ \A i \in 1..Len(body) : body[i] = "." \/ IsDigit(body[i])
                      /\ Cardinality(dots) <= 1
                      /\ digits # <<>>
        fracLen == IF dots = {} THEN 0 ELSE Len(body) - (CHOOSE i \in dots : TRUE)
    IN IF ~wellFormed THEN [ok |-> FALSE, val |-> NaN]
       ELSE [ok |-> TRUE,
             val |-> FDiv(FromInt(DecVal(digits)), FromInt(10^fracLen))]

\* The value of the exponent part  [sign] digits;  [ok |-> FALSE] if the text
\* is not of that form.
ParseExponent(text) ==
    LET signed == text # <<>> /\ text[1] \in {"-", "+"}
        body == IF signed THEN Tail(text) ELSE text
    IN IF body = <<>> \/ \E i \in 1..Len(body) : ~IsDigit(body[i])
       THEN [ok |-> FALSE, val |-> 0]
       ELSE [ok |-> TRUE,
             val |-> IF signed /\ text[1] = "-" THEN -DecVal(body)
                                                 ELSE DecVal(body)]

\* float(text): [ok |-> FALSE] is the ValueError; otherwise the value of
\* [sign] decimal [e exponent].
ParseFloat(text) ==
    LET signed == text # <<>> /\ text[1] \in {"-", "+"}
        body == IF signed THEN Tail(text) ELSE text
        es == {i \in 1..Len(body) : body[i] \in {"e", "E"}}
        cut == IF es = {} THEN Len(body) + 1 ELSE CHOOSE i \in es : TRUE
    IN The({ IF Cardinality(es) > 1 \/ ~dec.ok \/ ~ex.ok
             THEN [ok |-> FALSE, val |-> NaN]
             ELSE The({ [ok |-> TRUE,
                         val |-> IF signed /\ text[1] = "-" THEN FNeg(mag)
                                                             ELSE mag]
                        : mag \in {IF ex.val >= 0
                                    THEN FMul(dec.val, Pow10(ex.val))
                                    ELSE FDiv(dec.val, Pow10(-ex.val))} })
             : dec \in {ParseDecimal(SubSeq(body, 1, cut - 1))},
               ex \in {IF es = {} THEN [ok |-> TRUE, val |-> 0]
                        ELSE ParseExponent(SubSeq(body, cut + 1, Len(body)))} })

(***************************************************************************)
(* EllipticCurve: discriminant and Weierstrass j-invariant.                *)
(***************************************************************************)
\* The two source files of the repository.
File10 == "elliptic_curve.py"
File11 == "elliptic_curve1.1.py"
Files == {File10, File11}

\* None is the empty tuple; an optional value v that is present is <<v>>.
None == <<>>

discriminant(a_, b_) ==
    The({ IF Raised(a3) \/ Raised(b2) THEN OverflowError
          ELSE FMul(FromInt(-16),
                    FAdd(FMul(FromInt(4), a3), FMul(FromInt(27), b2)))
          : a3 \in {PyPow(a_, 3)}, b2 \in {PyPow(b_, 2)} })


\* float('inf')
PyInf == Inf(0)


\* j_invariant() with no tau (both files): the Weierstrass form.  The call
\* of self.discriminant() may raise.
j_weierstrass(a_, b_) ==
    The({ IF Raised(d) THEN OverflowError
          ELSE IF FEq(d, FromInt(0)) THEN PyInf
          ELSE FDiv(FMul(FromInt(-1728), FMul(FromInt(4), PyPow(a_, 3))), d)
          : d \in {discriminant(a_, b_)} })



(***************************************************************************)
(* numpy complex128 arithmetic on pairs [re, im] of floats.                *)
(***************************************************************************)
Complex(re, im) == [re |-> re, im |-> im]
CAdd(zz, ww) ==
    The({ Complex(FAdd(z.re, w.re), FAdd(z.im, w.im))
          : z \in {zz}, w \in {ww} })
CSub(zz, ww) ==
    The({ Complex(FSub(z.re, w.re), FSub(z.im, w.im))
          : z \in {zz}, w \in {ww} })
CMul(zz, ww) ==
    The({ Complex(FSub(FMul(z.re, w.re), FMul(z.im, w.im)),
                  FAdd(FMul(z.re, w.im), FMul(z.im, w.re)))
          : z \in {zz}, w \in {ww} })


\* n * z and n + z for a Python int n.
CScale(n, z) == CMul(Complex(FromInt(n), Zero(0)), z)
CPlus(n, z) == CAdd(Complex(FromInt(n), Zero(0)), z)

\* z ** 2 and z ** 3 (numpy multiplies out small integer powers).
CSquare(zz) == The({ CMul(z, z) : z \in {zz} })
CCube(zz) == The({ CMul(z, CMul(z, z)) : z \in {zz} })


\* z / w by Smith's method, as numpy divides complex numbers; a zero divisor
\* raises nothing and yields infinities and NaN.
CDiv(zz, ww) ==
    The({ LET wr == FAbs(w.re)
              wi == FAbs(w.im)
          IN IF FGe(wr, wi)
             THEN IF IsZero(wr) /\ IsZero(wi)
                  THEN Complex(FDiv(z.re, wr), FDiv(z.im, wr))
                  ELSE The({ Complex(FMul(FAdd(z.re, FMul(z.im, rat)), scl),
                                     FMul(FSub(z.im, FMul(z.re, rat)), scl))
                             : rat \in {FDiv(w.im, w.re)},
                               scl \in {FDiv(FromInt(1),
                                              FAdd(w.re,
                                                   FMul(w.im,
                                                        FDiv(w.im, w.re))))} })
             ELSE The({ Complex(FMul(FAdd(FMul(z.re, rat), z.im), scl),
                                FMul(FSub(FMul(z.im, rat), z.re), scl))
                        : rat \in {FDiv(w.re, w.im)},
                          scl \in {FDiv(FromInt(1),
                                         FAdd(w.im,
                                              FMul(w.re,
                                                   FDiv(w.re, w.im))))} })
          : z \in {zz}, w \in {ww} })


\* np.pi
NpPi == Fin(0, 12868, -12)

\* np.linspace(start, stop, num)[k], k in 0..num-1 (endpoint included).
Linspace(start, stop, num, k) ==
    The({ IF k = num - 1 THEN stop ELSE FAdd(FMul(FromInt(k), step), start)
          : step \in {FDiv(FSub(stop, start), FromInt(num - 1))} })


(***************************************************************************)
(* np.exp, np.cos and np.sin, tabulated at the arguments the program       *)
(* evaluates them at (the field grid and the sample points of the upper    *)
(* half-plane): each row is <<argument, value>>, a float as <<s, m, e>>,   *)
(* the value rounded to MantBits bits.                                     *)
(***************************************************************************)
ExpTable ==
    { <<<<1, 8216, -9>>, <<0, 14758, -37>>>>,
      <<<<1, 8298, -10>>, <<0, 10149, -25>>>>,
      <<<<1, 8314, -12>>, <<0, 8609, -16>>>>,
      <<<<1, 8455, -9>>, <<0, 9254, -37>>>>,
      <<<<1, 8694, -9>>, <<0, 11604, -38>>>>,
      <<<<1, 8776, -10>>, <<0, 12727, -26>>>>,
      <<<<1, 8933, -9>>, <<0, 14552, -39>>>>,
      <<<<1, 8941, -11>>, <<0, 13323, -20>>>>,
      <<<<1, 8974, -13>>, <<0, 10957, -15>>>>,
      <<<<1, 9173, -9>>, <<0, 9106, -39>>>>,
      <<<<1, 9254, -10>>, <<0, 15960, -27>>>>,
      <<<<1, 9411, -9>>, <<0, 11442, -40>>>>,
      <<<<1, 9651, -10>>, <<0, 10831, -27>>>>,
      <<<<1, 9651, -9>>, <<0, 14320, -41>>>>,
      <<<<1, 9733, -10>>, <<0, 9998, -27>>>>,
      <<<<1, 9898, -11>>, <<0, 8349, -20>>>>,
      <<<<1, 10211, -10>>, <<0, 12537, -28>>>>,
      <<<<1, 10228, -12>>, <<0, 10791, -17>>>>,
      <<<<1, 10294, -14>>, <<0, 8741, -14>>>>,
      <<<<1, 10690, -10>>, <<0, 15706, -29>>>>,
      <<<<1, 10854, -11>>, <<0, 10470, -21>>>>,
      <<<<1, 11144, -11>>, <<0, 9088, -21>>>>,
      <<<<1, 11168, -10>>, <<0, 9848, -29>>>>,
      <<<<1, 11647, -10>>, <<0, 12337, -30>>>>,
      <<<<1, 11812, -11>>, <<0, 13117, -22>>>>,
      <<<<1, 12125, -10>>, <<0, 15471, -31>>>>,
      <<<<1, 12142, -12>>, <<0, 13525, -18>>>>,
      <<<<1, 12603, -10>>, <<0, 9701, -31>>>>,
      <<<<1, 12768, -11>>, <<0, 8224, -22>>>>,
      <<<<1, 12802, -13>>, <<0, 13734, -16>>>>,
      <<<<1, 12868, -11>>, <<0, 15665, -23>>>>,
      <<<<1, 12868, -10>>, <<0, 14977, -32>>>>,
      <<<<1, 13082, -10>>, <<0, 12153, -32>>>>,
      <<<<1, 13561, -10>>, <<0, 15225, -33>>>>,
      <<<<1, 13726, -11>>, <<0, 10303, -23>>>>,
      <<<<1, 14040, -10>>, <<0, 9537, -33>>>>,
      <<<<1, 14056, -12>>, <<0, 8476, -18>>>>,
      <<<<1, 14517, -10>>, <<0, 11971, -34>>>>,
      <<<<1, 14682, -11>>, <<0, 12921, -24>>>>,
      <<<<1, 14996, -10>>, <<0, 14997, -35>>>>,
      <<<<1, 15474, -10>>, <<0, 9403, -35>>>>,
      <<<<1, 15639, -11>>, <<0, 16195, -25>>>>,
      <<<<1, 15953, -10>>, <<0, 11780, -36>>>>,
      <<<<1, 15969, -12>>, <<0, 10627, -19>>>> }

TrigTable ==
    { <<<<0, 0, 0>>, <<0, 8192, -13>>, <<0, 0, 0>>>>,
      <<<<0, 8413, -10>>, <<1, 11600, -15>>, <<0, 15323, -14>>>>,
      <<<<0, 8660, -9>>, <<1, 11687, -15>>, <<1, 15306, -14>>>>,
      <<<<0, 8906, -11>>, <<1, 11658, -15>>, <<1, 15312, -14>>>>,
      <<<<0, 9155, -9>>, <<0, 9279, -14>>, <<1, 13503, -14>>>>,
      <<<<0, 9403, -10>>, <<1, 15906, -14>>, <<0, 15716, -16>>>>,
      <<<<0, 9651, -9>>, <<0, 8192, -13>>, <<0, 14349, -28>>>>,
      <<<<0, 9896, -12>>, <<1, 12257, -14>>, <<0, 10872, -14>>>>,
      <<<<0, 10392, -10>>, <<1, 12278, -14>>, <<1, 10848, -14>>>>,
      <<<<0, 10886, -11>>, <<0, 9292, -14>>, <<1, 13494, -14>>>>,
      <<<<0, 11382, -10>>, <<0, 15647, -17>>, <<1, 16267, -14>>>>,
      <<<<0, 11875, -13>>, <<0, 15849, -17>>, <<0, 16264, -14>>>>,
      <<<<0, 12372, -10>>, <<0, 14500, -14>>, <<1, 15258, -15>>>>,
      <<<<0, 12865, -11>>, <<0, 8192, -13>>, <<1, 12139, -23>>>>,
      <<<<0, 12868, -12>>, <<1, 8192, -13>>, <<1, 9566, -30>>>>,
      <<<<0, 13361, -10>>, <<0, 14521, -14>>, <<0, 15175, -15>>>>,
      <<<<0, 13854, -12>>, <<1, 15912, -14>>, <<1, 15625, -16>>>>,
      <<<<0, 14351, -10>>, <<0, 16019, -17>>, <<0, 16261, -14>>>>,
      <<<<0, 14847, -11>>, <<0, 9311, -14>>, <<0, 13481, -14>>>>,
      <<<<0, 15340, -10>>, <<1, 12236, -14>>, <<0, 10895, -14>>>>,
      <<<<0, 15783, -15>>, <<0, 14520, -14>>, <<0, 15180, -15>>>>,
      <<<<0, 16330, -10>>, <<1, 15917, -14>>, <<1, 15534, -16>>>>,
      <<<<1, 8414, -10>>, <<1, 11630, -15>>, <<1, 15317, -14>>>>,
      <<<<1, 8661, -9>>, <<1, 11627, -15>>, <<0, 15318, -14>>>>,
      <<<<1, 8910, -11>>, <<1, 11599, -15>>, <<0, 15323, -14>>>>,
      <<<<1, 9156, -9>>, <<0, 9306, -14>>, <<0, 13485, -14>>>>,
      <<<<1, 9404, -10>>, <<1, 15910, -14>>, <<1, 15653, -16>>>>,
      <<<<1, 9651, -9>>, <<0, 8192, -13>>, <<1, 14349, -28>>>>,
      <<<<1, 9902, -12>>, <<1, 12273, -14>>, <<1, 10854, -14>>>>,
      <<<<1, 10394, -10>>, <<1, 12257, -14>>, <<0, 10872, -14>>>>,
      <<<<1, 10889, -11>>, <<0, 9312, -14>>, <<0, 13480, -14>>>>,
      <<<<1, 11384, -10>>, <<0, 15901, -17>>, <<0, 16263, -14>>>>,
      <<<<1, 11888, -13>>, <<0, 15642, -17>>, <<1, 16267, -14>>>>,
      <<<<1, 12373, -10>>, <<0, 14507, -14>>, <<0, 15229, -15>>>>,
      <<<<1, 12870, -11>>, <<0, 8192, -13>>, <<1, 8341, -23>>>>,
      <<<<1, 13363, -10>>, <<0, 14506, -14>>, <<1, 15231, -15>>>>,
      <<<<1, 13861, -12>>, <<1, 15905, -14>>, <<0, 15733, -16>>>>,
      <<<<1, 14354, -10>>, <<0, 15637, -17>>, <<1, 16267, -14>>>>,
      <<<<1, 14849, -11>>, <<0, 9298, -14>>, <<1, 13490, -14>>>>,
      <<<<1, 15344, -10>>, <<1, 12279, -14>>, <<1, 10847, -14>>>>,
      <<<<1, 15884, -15>>, <<0, 14496, -14>>, <<1, 15269, -15>>>>,
      <<<<1, 16333, -10>>, <<1, 15906, -14>>, <<0, 15720, -16>>>> }

Key(x) == <<x.s, x.m, x.e>>
Val(t) == Fin(t[1], t[2], t[3])
NpExp(x) == Val(The({r \in ExpTable : r[1] = Key(x)})[2])
NpCos(x) == Val(The({r \in TrigTable : r[1] = Key(x)})[2])
NpSin(x) == Val(The({r \in TrigTable : r[1] = Key(x)})[3])


\* np.exp of a complex number.
CExp(zz) ==
    The({ Complex(FMul(NpExp(z.re), NpCos(z.im)),
                  FMul(NpExp(z.re), NpSin(z.im)))
          : z \in {zz} })


\* q = np.exp(2 * np.pi * 1j * tau)
Nome(tau_) ==
    CExp(CMul(CMul(Complex(FMul(FromInt(2), NpPi), Zero(0)),
                   Complex(Zero(0), FromInt(1))),
              tau_))

\* The q-expansion branch of j_invariant: 1/q + 744 + 196884*q + 21493760*q**2
j_qexpansion(tau_) ==
    The({ CAdd(CAdd(CPlus(744, CDiv(Complex(FromInt(1), Zero(0)), q)),
                    CScale(196884, q)),
               CScale(21493760, CSquare(q)))
          : q \in {Nome(tau_)} })


\* j_invariant(self, tau=None) of the given file.  elliptic_curve.py takes tau
\* and never reads it.  A real result is returned as a complex with im = 0.
j_invariant(f, a_, b_, tau_) ==
    IF f = File11 /\ tau_ # None
    THEN j_qexpansion(tau_[1])
    ELSE Complex(j_weierstrass(a_, b_), Zero(0))

\* get_elliptic_curve_params(tau): <<a, b>>.
E4(qq) ==
    The({ CAdd(CPlus(1, CScale(240, q)), CScale(2160, CSquare(q)))
          : q \in {qq} })
E6(qq) ==
    The({ CSub(CSub(Complex(FromInt(1), Zero(0)), CScale(504, q)),
               CScale(16632, CSquare(q)))
          : q \in {qq} })
get_elliptic_curve_params(tau_) ==
    The({ The({ LET ca == CDiv(CScale(-27, e4), CScale(4, e6))
                    cb == CDiv(CScale(-27, CSub(CCube(e4), CSquare(e6))),
                               CScale(4, CSquare(e6)))
                IN <<ca.re, cb.re>>
                : e4 \in {E4(q)}, e6 \in {E6(q)} })
          : q \in {Nome(tau_)} })


\* get_y_values returning the non-negative root only.
get_y_values_positive_root(a_, b_, x) ==
    The({ IF FGe(y_squared, FromInt(0)) THEN <<FSqrt(y_squared)>> ELSE <<>>
          : y_squared \in {FAdd(FAdd(FPow(x, 3), FMul(a_, x)), b_)} })


\* get_y_values without the test y_squared >= 0.
get_y_values_unguarded(a_, b_, x) ==
    The({ <<FSqrt(y_squared), FNeg(FSqrt(y_squared))>>
          : y_squared \in {FAdd(FAdd(FPow(x, 3), FMul(a_, x)), b_)} })


\* get_y_values(x): the real y with y^2 = x^3 + a x + b.
get_y_values(a_, b_, x) ==
    The({ IF FGe(y_squared, FromInt(0))
          THEN <<FSqrt(y_squared), FNeg(FSqrt(y_squared))>>
          ELSE <<>>
          : y_squared \in {FAdd(FAdd(FPow(x, 3), FMul(a_, x)), b_)} })


(***************************************************************************)
(* State.                                                                  *)
(*   file, a, b            the running script and the curve's self.a/b     *)
(*   text_a, text_b        contents of the two TextBox widgets             *)
(*   console               lines printed so far                            *)
(*   shown                 the (a, b) and the j-invariant the figure shows *)
(*   ret                   what the latest call on the curve returned      *)
(*   tau, jt, prm, jw      a point of the upper half-plane and the results *)
(*                         computed for it                                 *)
(*   idx, points_x,        plot_current_curve: position of `for xi in x`   *)
(*   points_y              and the two point lists                         *)
(*   probe                 <<x, get_y_values(x)>> of the latest direct     *)
(*                         call of get_y_values                            *)
(*   fi, fj, Z, writes     plot_modular_form: the loop indices i and j,    *)
(*                         the array Z and the indices assigned so far     *)
(*   pc                    where the running plot routine is               *)
(***************************************************************************)
VARIABLES file, a, b, text_a, text_b, console, shown, ret,
          tau, jt, prm, jw, idx, points_x, points_y, probe,
          fi, fj, Z, writes, pc

vars == <<file, a, b, text_a, text_b, console, shown, ret,
          tau, jt, prm, jw, idx, points_x, points_y, probe,
          fi, fj, Z, writes, pc>>

curveVars == <<file, a, b>>
uiVars == <<text_a, text_b, console, shown, ret>>
tauVars == <<tau, jt, prm, jw>>
locusVars == <<idx, points_x, points_y, probe>>
fieldVars == <<fi, fj, Z, writes>>

\* Lines the console may hold before the model stops accepting bad input.
MaxPrints == 1

\* What the user types into a text box.
TextInputs ==
    { <<"0", ".", "5">>, <<"2", "x">>,
      <<"1", "e", "1", "0", "2">>, <<"1", "e", "1", "0", "3">> }

\* Arguments the curve is constructed with (main() uses a=-1, b=0).
CtorArgs == { <<-1, 0>>, <<0, 0>>, <<-3, 2>> }

InvalidMsg == "Please enter valid numbers"

NoRet == [op |-> "none", val |-> Zero(0)]
Shown(a_, b_) == [a |-> a_, b |-> b_, j |-> j_weierstrass(a_, b_)]

IdleTau == tau = None /\ jt = None /\ prm = None /\ jw = None
IdleLocus == idx = 0 /\ points_x = <<>> /\ points_y = <<>> /\ probe = None
IdleField == fi = 0 /\ fj = 0 /\ Z = <<>> /\ writes = <<>>

(***************************************************************************)
(* The interactive session: interactive_plot and its update handler.       *)
(***************************************************************************)
Init ==
    /\ file \in Files
    /\ \E c \in CtorArgs :
          /\ a = FromInt(c[1])
          /\ b = FromInt(c[2])
          /\ text_a = StrInt(c[1])
          /\ text_b = StrInt(c[2])
          /\ shown = Shown(FromInt(c[1]), FromInt(c[2]))
    /\ console = <<>>
    /\ ret = NoRet
    /\ IdleTau /\ IdleLocus /\ IdleField
    /\ pc = "show"

\* The user edits a text box.
TypeA(t) == /\ pc = "show"
            /\ text_a' = t
            /\ UNCHANGED <<curveVars, text_b, console, shown, ret, tauVars,
                           locusVars, fieldVars, pc>>
TypeB(t) == /\ pc = "show"
            /\ text_b' = t
            /\ UNCHANGED <<curveVars, text_a, console, shown, ret, tauVars,
                           locusVars, fieldVars, pc>>

\* update_plot: the state [a, b, shown, console] it leaves.  The redraw is
\* summarised by `shown`; the point lists and the field it draws are the
\* subject of LocusSpec and FieldSpec.  plot_modular_form puts
\* self.j_invariant() in its title: if that call raises OverflowError the
\* exception leaves the handler, which catches ValueError only, and shown.j
\* records it.
update_plot(st, ta, tb) ==
    The({ IF ~pa.ok
          THEN [st EXCEPT !.console = Append(@, InvalidMsg)]
          ELSE IF ~pb.ok
          THEN [st EXCEPT !.a = pa.val, !.console = Append(@, InvalidMsg)]
          ELSE [st EXCEPT !.a = pa.val, !.b = pb.val,
                          !.shown = Shown(pa.val, pb.val)]
          : pa \in {ParseFloat(ta)}, pb \in {ParseFloat(tb)} })

\* The handler runs while the figure is whole.  Once an exception has left
\* a redraw half done (the colorbar removed and not replaced) the outcome of
\* a further update depends on matplotlib and is not modelled.

UpdatePlot ==
    /\ pc = "show"
    /\ ~Raised(shown.j)
    /\ \E st \in {update_plot([a |-> a, b |-> b, shown |-> shown,
                                console |-> console], text_a, text_b)} :
          /\ Len(st.console) <= MaxPrints
          /\ a' = st.a
          /\ b' = st.b
          /\ shown' = st.shown
          /\ console' = st.console
    /\ ret' = NoRet
    /\ UNCHANGED <<file, text_a, text_b, tauVars, locusVars, fieldVars, pc>>


\* curve.discriminant()
Discriminant ==
    /\ pc = "show"
    /\ ret' = [op |-> "discriminant", val |-> discriminant(a, b)]
    /\ UNCHANGED <<curveVars, text_a, text_b, console, shown, tauVars,
                   locusVars, fieldVars, pc>>

\* curve.j_invariant()
JInvariant ==
    /\ pc = "show"
    /\ ret' = [op |-> "j_invariant", val |-> j_invariant(file, a, b, None).re]
    /\ UNCHANGED <<curveVars, text_a, text_b, console, shown, tauVars,
                   locusVars, fieldVars, pc>>

Next ==
    \/ \E t \in TextInputs : TypeA(t)
    \/ \E t \in TextInputs : TypeB(t)
    \/ UpdatePlot
    \/ Discriminant
    \/ JInvariant

Spec == Init /\ [][Next]_vars


(***************************************************************************)
(* Properties of the interactive session.                                  *)
(***************************************************************************)

\* Relative tolerance 2^-10 for comparisons of computed values.
Tol == Fin(0, MantLo, -(MantBits - 1) - 10)
Close(xx, yy) ==
    \E x \in {xx}, y \in {yy} :
        /\ IsFinite(x)
        /\ IsFinite(y)
        /\ FLe(FAbs(FSub(x, y)), FMul(Tol, FAbs(y)))


\* The integer 2x of a parameter x that is a multiple of 1/2.
TwiceInt(x) ==
    IF IsZero(x) THEN 0
    ELSE LET mag == IF x.e + 1 >= 0 THEN x.m * 2^(x.e + 1)
                    ELSE x.m \div 2^(-(x.e + 1))
         IN IF x.s = 1 THEN -mag ELSE mag

\* With A = 2a and B = 2b:  -16(4a^3 + 27b^2) = -8A^3 - 108B^2.
ExactDisc(a_, b_) ==
    -8 * TwiceInt(a_) * TwiceInt(a_) * TwiceInt(a_)
    - 108 * TwiceInt(b_) * TwiceInt(b_)

\* C1: when update_plot runs with non-numeric text in the a box or the b
\* box, the update is rejected as a whole: a message is printed and both
\* self.a and self.b keep the values they had before the handler ran.
C1_RejectedUpdateKeepsPair ==
    [][Len(console') > Len(console) => a' = a /\ b' = b]_vars

\* A parameter that is a multiple of 1/2 of magnitude below 16.
HalfInt(x) ==
    /\ IsFinite(x)
    /\ \/ x.m = 0
       \/ /\ x.e + MantBits <= 4
          /\ x.e + MantBits >= 0
          /\ (x.e + 1 < 0 => x.m % 2^(-(x.e + 1)) = 0)

\* C2: j_invariant() without tau returns the infinite sentinel when the
\* discriminant of the current (a, b) is exactly 0, and otherwise, for every
\* (a, b), returns a finite j with j * discriminant = -6912 a^3
\* (= -864 (2a)^3, up to rounding): j = 108 with discriminant 64 for
\* a = -1, b = 0.
C2_WeierstrassJ ==
    ret.op = "j_invariant" =>
        /\ ~Raised(ret.val)
        /\ (IsFinite(a) /\ ~IsZero(a) /\ IsZero(b)) => IsFinite(ret.val)
        /\ (HalfInt(a) /\ HalfInt(b)) =>
              IF ExactDisc(a, b) = 0
              THEN ret.val = PyInf
              ELSE /\ IsFinite(ret.val)
                   /\ LET A == TwiceInt(a)
                      IN IF A = 0 THEN IsZero(ret.val)
                         ELSE Close(FMul(ret.val, FromInt(ExactDisc(a, b))),
                                    FromInt(-864 * A * A * A))
                   /\ (a = FromInt(-1) /\ b = FromInt(0)
                          => ret.val = FromInt(108) /\ ExactDisc(a, b) = 64)

\* C5: discriminant() returns -16(4a^3 + 27b^2) of the (a, b) the curve holds
\* at the call (0 for a = 0, b = 0), whatever calls and updates came before;
\* it has no failure case; and a call of discriminant() or j_invariant()
\* leaves (a, b) unchanged.
C5_DiscriminantOnDemand ==
    [][/\ ret'.op = "discriminant" =>
             /\ ~Raised(ret'.val)
             /\ (HalfInt(a') /\ HalfInt(b'))
                   => FEq(ret'.val, FromInt(ExactDisc(a', b')))
       /\ (ret'.op # "none" /\ ret' # ret) => a' = a /\ b' = b]_vars



(***************************************************************************)
(* The two j computations at one point tau: j_invariant(tau), and the      *)
(* Weierstrass j of get_elliptic_curve_params(tau).                        *)
(***************************************************************************)
ImAxis(n, d) == Complex(FromInt(0), FDiv(FromInt(n), FromInt(d)))

\* The special points i and rho marked by plot_modular_form.
i_point == Complex(FromInt(0), FromInt(1))
rho_point ==
    Complex(FAdd(FDiv(FromInt(5), FromInt(10)), Zero(0)),
            FMul(FromInt(1), FDiv(FSqrt(FromInt(3)), FromInt(2))))

\* Points at which the two computations are compared.
SampleTaus == { i_point, rho_point, ImAxis(3, 2), ImAxis(2, 1), ImAxis(3, 1) }

TauInit ==
    /\ file \in Files
    /\ \E c \in CtorArgs :
          /\ a = FromInt(c[1])
          /\ b = FromInt(c[2])
          /\ text_a = StrInt(c[1])
          /\ text_b = StrInt(c[2])
          /\ shown = Shown(FromInt(c[1]), FromInt(c[2]))
    /\ console = <<>>
    /\ ret = NoRet
    /\ \E t \in SampleTaus : tau = <<t>>
    /\ jt = None /\ prm = None /\ jw = None
    /\ IdleLocus /\ IdleField
    /\ pc = "tau"

\* jt = curve.j_invariant(tau)
CallJTau ==
    /\ pc = "tau"
    /\ jt = None
    /\ jt' = <<j_invariant(file, a, b, tau)>>
    /\ UNCHANGED <<curveVars, uiVars, tau, prm, jw, locusVars, fieldVars, pc>>

\* prm = curve.get_elliptic_curve_params(tau); only elliptic_curve1.1.py
\* defines the method.
CallParams ==
    /\ pc = "tau"
    /\ file = File11
    /\ prm = None
    /\ prm' = get_elliptic_curve_params(tau[1])
    /\ UNCHANGED <<curveVars, uiVars, tau, jt, jw, locusVars, fieldVars, pc>>

\* jw = EllipticCurve(prm[0], prm[1]).j_invariant()
CallJOfParams ==
    /\ pc = "tau"
    /\ prm # None
    /\ jw = None
    /\ jw' = <<j_invariant(file, prm[1], prm[2], None).re>>
    /\ UNCHANGED <<curveVars, uiVars, tau, jt, prm, locusVars, fieldVars, pc>>

TauNext == CallJTau \/ CallParams \/ CallJOfParams

TauSpec == TauInit /\ [][TauNext]_vars

\* C7: j_invariant called with tau returns the q-expansion
\* 1/q + 744 + 196884 q + 21493760 q^2 with q = exp(2 pi i tau); the result
\* is determined by tau alone, whatever (a, b) the curve holds.
C7_QExpansionOfTauAlone ==
    jt # None => jt[1] = j_qexpansion(tau[1])

\* C8: for tau = 2i and above on the imaginary axis, j_invariant(tau) and the
\* Weierstrass j of get_elliptic_curve_params(tau) agree to within a loose
\* tolerance (here: they differ by at most half of |j(tau)|).
C8_RoundTrip ==
    (/\ jt # None
     /\ jw # None
     /\ IsZero(tau[1].re)
     /\ FGe(tau[1].im, FromInt(2)))
        => /\ IsFinite(jw[1])
           /\ FLe(FAbs(FSub(jt[1].re, jw[1])),
                  FDiv(FAbs(jt[1].re), FromInt(2)))


(***************************************************************************)
(* plot_current_curve: the sampled real locus of the curve.                *)
(***************************************************************************)
NumSamples == 1000

\* x = np.linspace(-5, 5, 1000); the k-th element, k from 0.
curve_x(k) == Linspace(FromInt(-5), FromInt(5), NumSamples, k)

\* Arguments of direct calls of get_y_values.
ProbeXs == { FromInt(0), FromInt(2), FromInt(-2), FDiv(FromInt(1), FromInt(2)) }

LocusInit ==
    /\ file \in Files
    /\ \E c \in CtorArgs :
          /\ a = FromInt(c[1])
          /\ b = FromInt(c[2])
          /\ text_a = StrInt(c[1])
          /\ text_b = StrInt(c[2])
          /\ shown = Shown(FromInt(c[1]), FromInt(c[2]))
    /\ console = <<>>
    /\ ret = NoRet
    /\ IdleTau /\ IdleLocus /\ IdleField
    /\ pc = "locus"

\* One iteration of `for xi in x`, the inner `for y in y_values` included.
LocusStep ==
    /\ pc = "locus"
    /\ idx < NumSamples
    /\ LET xi == curve_x(idx)
           y_values == get_y_values(a, b, xi)
       IN /\ points_x' = points_x \o [n \in 1..Len(y_values) |-> xi]
          /\ points_y' = points_y \o y_values
    /\ idx' = idx + 1
    /\ UNCHANGED <<curveVars, uiVars, tauVars, probe, fieldVars, pc>>

\* The loop is over; ax.plot(points_x, points_y) draws the lists.
LocusDone ==
    /\ pc = "locus"
    /\ idx = NumSamples
    /\ pc' = "locus_done"
    /\ UNCHANGED <<curveVars, uiVars, tauVars, locusVars, fieldVars>>

\* curve.get_y_values(x), called directly once the plot is drawn.
CallGetYValues(x) ==
    /\ pc = "locus_done"
    /\ probe' = <<x, get_y_values(a, b, x)>>
    /\ UNCHANGED <<curveVars, uiVars, tauVars, idx, points_x, points_y,
                   fieldVars, pc>>

LocusNext ==
    \/ LocusStep
    \/ LocusDone
    \/ \E x \in ProbeXs : CallGetYValues(x)

LocusSpec == LocusInit /\ [][LocusNext]_vars


\* x^3 + a x + b for the curve's current parameters.
YSquared(x) == FAdd(FAdd(FPow(x, 3), FMul(a, x)), b)

\* C4: for every sampled x, with y^2 = x^3 + a x + b: if y^2 >= 0 the sampler
\* appends exactly the two points (x, +sqrt(y^2)) then (x, -sqrt(y^2)); if
\* y^2 < 0 it appends nothing.  So no square root of a negative number (a
\* NaN) is ever emitted, every emitted y has y * y = y^2 up to rounding, and
\* the emitted x are in non-decreasing order.
C4_LocusSampler ==
    [][idx' = idx + 1 =>
        LET x == curve_x(idx)
            n == Len(points_x)
            m == Len(points_x')
        IN /\ Len(points_y') = m
           /\ SubSeq(points_x', 1, n) = points_x
           /\ SubSeq(points_y', 1, n) = points_y
           /\ IF FGe(YSquared(x), FromInt(0))
              THEN /\ m = n + 2
                   /\ points_x'[n + 1] = x
                   /\ points_x'[n + 2] = x
                   /\ ~IsNaN(points_y'[n + 1])
                   /\ FGe(points_y'[n + 1], FromInt(0))
                   /\ points_y'[n + 2] = FNeg(points_y'[n + 1])
                   /\ Close(FMul(points_y'[n + 1], points_y'[n + 1]),
                            YSquared(x))
                   /\ Close(FMul(points_y'[n + 2], points_y'[n + 2]),
                            YSquared(x))
                   /\ n > 0 => FLe(points_x[n], x)
              ELSE m = n]_vars

C4_Witness ==
    /\ pc = "locus_done"
    /\ a = FromInt(-1)
    /\ b = FromInt(0)
    /\ Len(points_x) > 0
    /\ Len(points_x) < 2 * NumSamples
    /\ Len(points_y) = Len(points_x)

OnLocus(x, y) ==
    \E n \in 1..Len(points_x) : FEq(points_x[n], x) /\ points_y[n] = y

Sqrt6(y) == Close(FMul(y, y), FromInt(6))

\* C9 as stated: for a = -1, b = 0 the locus sampled over the default domain
\* includes x = 0 with both +0 and -0, and x = 2 with y = +sqrt(6) and
\* y = -sqrt(6).
C9_DefaultLocusHasZeroAndTwo ==
    (pc = "locus_done" /\ a = FromInt(-1) /\ b = FromInt(0)) =>
        /\ OnLocus(FromInt(0), Zero(0))
        /\ OnLocus(FromInt(0), Zero(1))
        /\ \E n \in 1..Len(points_x) :
              /\ FEq(points_x[n], FromInt(2))
              /\ Sqrt6(points_y[n])

\* C9 amended: for a = -1, b = 0, get_y_values(0) returns +0 then -0 and
\* get_y_values(2) returns +sqrt(6) then -sqrt(6); the default domain, 1000
\* evenly spaced x in [-5, 5], holds neither x = 0 nor x = 2, so the sampled
\* locus has no point with either abscissa.
C9_ProbesAndDefaultLocus ==
    (pc = "locus_done" /\ a = FromInt(-1) /\ b = FromInt(0)) =>
        /\ \A n \in 1..Len(points_x) :
              /\ FNe(points_x[n], FromInt(0))
              /\ FNe(points_x[n], FromInt(2))
        /\ (probe # None /\ probe[1] = FromInt(0))
              => probe[2] = <<Zero(0), Zero(1)>>
        /\ (probe # None /\ probe[1] = FromInt(2))
              => /\ Len(probe[2]) = 2
                 /\ Sqrt6(probe[2][1])
                 /\ FGe(probe[2][1], FromInt(0))
                 /\ probe[2][2] = FNeg(probe[2][1])

C9_Witness ==
    /\ pc = "locus_done"
    /\ a = FromInt(-1)
    /\ b = FromInt(0)
    /\ Len(points_x) > 0
    /\ probe # None
    /\ probe[1] = FromInt(2)
    /\ Len(probe[2]) = 2


(***************************************************************************)
(* plot_modular_form of elliptic_curve1.1.py: the field over the grid of   *)
(* the upper half-plane.                                                   *)
(***************************************************************************)
GridNx == 40
GridNy == 40

\* x = np.linspace(-3, 3, 40) and y = np.linspace(0.1, 3, 40).
grid_x(i) == Linspace(FromInt(-3), FromInt(3), GridNx, i)
grid_y(j) == Linspace(FDiv(FromInt(1), FromInt(10)), FromInt(3), GridNy, j)

\* tau = X + 1j*Y with X, Y = np.meshgrid(x, y), read with tau[j, i] swapped
\* to the 'ij' layout of meshgrid.
tau_grid_ij(j, i) == Complex(grid_x(j), grid_y(i))

\* X, Y = np.meshgrid(x, y): X[j, i] = x[i], Y[j, i] = y[j];
\* tau = X + 1j*Y.
tau_grid(j, i) == Complex(grid_x(i), grid_y(j))

\* The value stored for one grid point: the body of the double loop, which
\* computes the discriminant of (a_tau, b_tau) inline, by the expression of
\* discriminant(); a_tau**3 or b_tau**2 may raise.
field_cell(current_tau) ==
    The({ The({ IF Raised(disc) THEN Complex(OverflowError, Zero(0))
                ELSE IF FNe(disc, FromInt(0))
                THEN Complex(FDiv(FMul(FromInt(-1728),
                                       FMul(FromInt(4), PyPow(p[1], 3))),
                                  disc),
                             Zero(0))
                ELSE Complex(PyInf, Zero(0))
                : disc \in {discriminant(p[1], p[2])} })
          : p \in {get_elliptic_curve_params(current_tau)} })



\* Z = np.zeros_like(X, dtype=complex)
ZerosLikeX ==
    [j \in 0..(GridNy - 1) |->
        [i \in 0..(GridNx - 1) |-> Complex(Zero(0), Zero(0))]]

FieldInit ==
    /\ file = File11
    /\ \E c \in CtorArgs :
          /\ a = FromInt(c[1])
          /\ b = FromInt(c[2])
          /\ text_a = StrInt(c[1])
          /\ text_b = StrInt(c[2])
          /\ shown = Shown(FromInt(c[1]), FromInt(c[2]))
    /\ console = <<>>
    /\ ret = NoRet
    /\ IdleTau /\ IdleLocus
    /\ fi = 0
    /\ fj = 0
    /\ Z = ZerosLikeX
    /\ writes = <<>>
    /\ pc = "field"

\* The double loop with the roles of the two indices exchanged: j outside,
\* i inside.
FieldStep_rows_outside ==
    /\ pc = "field"
    /\ fj < GridNy
    /\ ~Raised(field_cell(tau_grid(fj, fi)).re)
    /\ Z' = [Z EXCEPT ![fj][fi] = field_cell(tau_grid(fj, fi))]
    /\ writes' = Append(writes, <<fj, fi>>)
    /\ IF fi + 1 < GridNx
       THEN fi' = fi + 1 /\ fj' = fj
       ELSE fi' = IF fj + 1 < GridNy THEN 0 ELSE GridNx
            /\ fj' = fj + 1
    /\ UNCHANGED <<curveVars, uiVars, tauVars, locusVars, pc>>

\* One pass of the body of
\*     for i in range(len(x)): for j in range(len(y)): Z[j,i] = ...
FieldStep ==
    /\ pc = "field"
    /\ fi < GridNx
    /\ \E cell \in {field_cell(tau_grid(fj, fi))} :
          IF Raised(cell.re)
          THEN /\ pc' = "field_raised"
               /\ UNCHANGED fieldVars
          ELSE /\ Z' = [Z EXCEPT ![fj][fi] = cell]
               /\ writes' = Append(writes, <<fj, fi>>)
               /\ IF fj + 1 < GridNy
                  THEN fj' = fj + 1 /\ fi' = fi
                  ELSE fj' = 0 /\ fi' = fi + 1
               /\ pc' = pc
    /\ UNCHANGED <<curveVars, uiVars, tauVars, locusVars>>

\* Both loops are over; Z goes to the contour plot.
FieldDone ==
    /\ pc = "field"
    /\ fi = GridNx
    /\ pc' = "field_done"
    /\ UNCHANGED <<curveVars, uiVars, tauVars, locusVars, fieldVars>>

FieldNext == FieldStep \/ FieldDone

FieldSpec == FieldInit /\ [][FieldNext]_vars

GridIndices == (0..(GridNy - 1)) \X (0..(GridNx - 1))

\* C6: when the double loop finishes, Z has GridNy rows and GridNx columns,
\* every index (j, i) of the grid has been assigned exactly once, no other
\* index has been written, and Z[j, i] is the value computed from
\* tau = x[i] + i y[j].
C6_GridComplete ==
    pc = "field_done" =>
        /\ DOMAIN Z = 0..(GridNy - 1)
        /\ \A j \in DOMAIN Z : DOMAIN Z[j] = 0..(GridNx - 1)
        /\ Len(writes) = GridNx * GridNy
        /\ {writes[n] : n \in 1..Len(writes)} = GridIndices
        /\ \A j \in 0..(GridNy - 1), i \in 0..(GridNx - 1) :
              Z[j][i] = field_cell(Complex(grid_x(i), grid_y(j)))

C6_Witness ==
    /\ pc = "field_done"
    /\ Len(writes) = GridNx * GridNy
    /\ Z[GridNy - 1][0] # Z[0][GridNx - 1]
    /\ Z[0][0] # Complex(Zero(0), Zero(0))

LastWrite == writes[Len(writes)]

\* C10 as stated: the cells are computed in row-major order: all cells of
\* row j before any cell of row j + 1, so the row index never decreases from
\* one assignment to the next.
C10_RowMajor ==
    [][(Len(writes') = Len(writes) + 1 /\ Len(writes) > 0)
          => LastWrite'[1] >= LastWrite[1]]_vars

\* C10 amended: the cells are computed one at a time in column-major order:
\* all cells of grid column i (fixed Re(tau) = x[i], Im(tau) increasing) are
\* computed before any cell of column i + 1; each assignment stores the value
\* computed from its own tau and changes no other cell.
C10_ColumnMajor ==
    [][Len(writes') = Len(writes) + 1 =>
        LET j == LastWrite'[1]
            i == LastWrite'[2]
        IN /\ Len(writes) = i * GridNy + j
           /\ Len(writes) > 0 =>
                 \/ i = LastWrite[2] /\ j = LastWrite[1] + 1
                 \/ /\ i = LastWrite[2] + 1
                    /\ j = 0
                    /\ LastWrite[1] = GridNy - 1
           /\ Z'[j][i] = field_cell(Complex(grid_x(i), grid_y(j)))
           /\ \A r \in 0..(GridNy - 1), c \in 0..(GridNx - 1) :
                 <<r, c>> # <<j, i>> => Z'[r][c] = Z[r][c]]_vars

C10_Witness ==
    /\ pc = "field"
    /\ Len(writes) = GridNy + 1
    /\ writes[GridNy] = <<GridNy - 1, 0>>
    /\ LastWrite = <<0, 1>>

====
